---- MODULE Spec2Model ----
(***************************************************************************)
(* Model of the Avro <-> Iceberg schema converters of iceberg-go:          *)
(*   AvroToIceberg  (wire -> catalog), the toIcebergConverter methods and  *)
(*                  resolveUnion;                                          *)
(*   IcebergToAvro  (catalog -> wire), the ToAvroVisitor methods driven by *)
(*                  the schema visitor Visit.                              *)
(* Schemas are trees of records.  A Go call that returns (value, error)    *)
(* or panics is a record with st in {"ok", "err", "panic"}.                *)
(***************************************************************************)
EXTENDS Integers, Sequences, FiniteSets, TLC

(***************************************************************************)
(* Property keys (the const block of the source).                          *)
(***************************************************************************)
ADJUST_TO_UTC_PROP == "adjust-to-utc"
ELEMENT_ID_PROP == "element-id"
FIELD_ID_PROP == "field-id"
ICEBERG_FIELD_NAME_PROP == "iceberg-field-name"
KEY_ID_PROP == "key-id"
LOGICAL_TYPE_PROP == "logicalType"
VALUE_ID_PROP == "value-id"

(***************************************************************************)
(* Dynamically typed Go values (any): property values and defaults.        *)
(* A number read from JSON text is a float64; the visitor writes ints,     *)
(* strings and bools.                                                      *)
(***************************************************************************)
NilVal == [kind |-> "nil"]
F64(n) == [kind |-> "float64", n |-> n]
IntV(n) == [kind |-> "int", n |-> n]
NumStr(n) == [kind |-> "numstr", n |-> n]
StrV(s) == [kind |-> "string", s |-> s]
BoolV(b) == [kind |-> "bool", b |-> b]

NoProps == <<>>
Prop(props, key) == IF key \in DOMAIN props THEN props[key] ELSE NilVal

(***************************************************************************)
(* Wire (Avro) schema nodes.                                               *)
(***************************************************************************)
PrimitiveTypes == {"null", "boolean", "int", "long", "float", "double", "string", "bytes"}

LitName(s) == [p |-> "lit", s |-> s, a |-> 0, b |-> 0]
RName(id) == [p |-> "r", s |-> "", a |-> id, b |-> 0]
KVName(k, v) == [p |-> "kv", s |-> "", a |-> k, b |-> v]

NewPrimitiveSchema(t, lt, prec, scale, props) ==
    [t |-> t, lt |-> lt, prec |-> prec, scale |-> scale, props |-> props]
Prim(t) == NewPrimitiveSchema(t, "none", 0, 0, NoProps)
LogicalPrim(t, lt) == NewPrimitiveSchema(t, lt, 0, 0, NoProps)
NullSchema == Prim("null")
NewFixedSchema(name, size, lt, prec, scale, props) ==
    [t |-> "fixed", name |-> name, size |-> size, lt |-> lt,
     prec |-> prec, scale |-> scale, props |-> props]
EnumSchema(name) == [t |-> "enum", name |-> name, props |-> NoProps]
NewArraySchema(items, props) == [t |-> "array", items |-> items, props |-> props]
NewMapSchema(values, props) == [t |-> "map", values |-> values, props |-> props]
NewUnionSchema(types) == [t |-> "union", types |-> types]
NewRecordSchema(name, fields) == [t |-> "record", name |-> name, fields |-> fields]

NoDefault == [kind |-> "none"]
NullDefault == [kind |-> "null"]
NewField(name, type, doc, def, props) ==
    [nil |-> FALSE, name |-> name, type |-> type, doc |-> doc, def |-> def, props |-> props]
NilField == [nil |-> TRUE]

\* Field.Default(): nil when the field has no default or a null default.
FieldDefault(field) ==
    IF field.def.kind \in {"none", "null"} THEN NilVal ELSE field.def

(***************************************************************************)
(* Catalog (Iceberg) types.                                                *)
(***************************************************************************)
PrimT(k) == [k |-> k]
FixedTypeOf(n) == [k |-> "fixed", len |-> n]
DecimalTypeOf(p, s) == [k |-> "decimal", precision |-> p, scale |-> s]
ListType(eid, elem, req) ==
    [k |-> "list", ElementID |-> eid, Element |-> elem, ElementRequired |-> req]
MapType(kid, kt, vid, vt, req) ==
    [k |-> "map", KeyID |-> kid, KeyType |-> kt, ValueID |-> vid,
     ValueType |-> vt, ValueRequired |-> req]
StructType(fields) == [k |-> "struct", FieldList |-> fields]
NestedField(type, id, name, required, doc, wd) ==
    [Type |-> type, ID |-> id, Name |-> name, Required |-> required,
     Doc |-> doc, WriteDefault |-> wd]
NewSchema(id, fields) == [ID |-> id, fields |-> fields]

(***************************************************************************)
(* Outcomes of a call.                                                     *)
(***************************************************************************)
Ok(v, c) == [st |-> "ok", v |-> v, c |-> c]
Err(msg, c) == [st |-> "err", msg |-> msg, c |-> c]
Panic(msg, c) == [st |-> "panic", msg |-> msg, c |-> c]

(***************************************************************************)
(* resolveUnion.                                                           *)
(***************************************************************************)
\* A resolver that takes null in the first position only.
resolveUnionNullFirst(avsc) ==
    IF avsc.t # "union"
    THEN [st |-> "ok", v |-> avsc, required |-> TRUE]
    ELSE LET types == avsc.types IN
         CASE Len(types) = 0 -> [st |-> "err", msg |-> "empty union schema"]
           [] Len(types) = 1 -> [st |-> "ok", v |-> types[1], required |-> TRUE]
           [] Len(types) = 2 ->
                IF types[1].t = "null"
                THEN [st |-> "ok", v |-> types[2], required |-> FALSE]
                ELSE [st |-> "err", msg |-> "invalid union schema"]
           [] OTHER -> [st |-> "err", msg |-> "unsupported union schema"]

resolveUnion(avsc) ==
    IF avsc.t # "union"
    THEN [st |-> "ok", v |-> avsc, required |-> TRUE]
    ELSE LET types == avsc.types IN
         CASE Len(types) = 0 -> [st |-> "err", msg |-> "empty union schema"]
           [] Len(types) = 1 -> [st |-> "ok", v |-> types[1], required |-> TRUE]
           [] Len(types) = 2 ->
                IF types[1].t = "null"
                THEN [st |-> "ok", v |-> types[2], required |-> FALSE]
                ELSE IF types[2].t = "null"
                THEN [st |-> "ok", v |-> types[1], required |-> FALSE]
                ELSE [st |-> "err", msg |-> "invalid union schema"]
           [] OTHER -> [st |-> "err", msg |-> "unsupported union schema"]

(***************************************************************************)
(* toIcebergConverter: the ID policy.  The converter state is its          *)
(* idCounter, threaded through the calls as c.                             *)
(***************************************************************************)
allocateId(c) == Ok(c, c + 1)

\* An ID policy that draws from the counter before it looks at the property.
getIDAlwaysDraws(c, props, key) ==
    LET p == Prop(props, key)
        a == allocateId(c)
    IN  IF p.kind # "nil"
        THEN IF p.kind = "float64" THEN Ok(p.n, a.c)
             ELSE Panic("interface conversion: not float64", c)
        ELSE a

\* int(x.(float64)): the type assertion panics on any other dynamic type.
getID(c, props, key) ==
    LET p == Prop(props, key) IN
    IF p.kind # "nil"
    THEN IF p.kind = "float64" THEN Ok(p.n, c)
         ELSE Panic("interface conversion: not float64", c)
    ELSE allocateId(c)

getElementID(c, avsc) == getID(c, avsc.props, ELEMENT_ID_PROP)
getKeyID(c, avsc) == getID(c, avsc.props, KEY_ID_PROP)
getValueID(c, avsc) == getID(c, avsc.props, VALUE_ID_PROP)
getFieldID(c, field) == getID(c, field.props, FIELD_ID_PROP)

(***************************************************************************)
(* toIcebergConverter: the recursive descent.                              *)
(***************************************************************************)
HasLogical(avsc) == avsc.t \in (PrimitiveTypes \cup {"fixed"}) /\ avsc.lt # "none"

convertLogicalSchema(c, avsc) ==
    LET t == avsc.t
        lt == avsc.lt
    IN  CASE t = "fixed" /\ lt = "decimal" ->
               \* Prop("precision").(int), Prop("scale").(int)
               LET p == Prop(avsc.props, "precision")
                   s == Prop(avsc.props, "scale")
               IN  IF p.kind = "int" /\ s.kind = "int"
                   THEN Ok(DecimalTypeOf(p.n, s.n), c)
                   ELSE Panic("interface conversion: not int", c)
          [] t = "fixed" /\ lt = "uuid" -> Ok(PrimT("uuid"), c)
          [] t = "int" /\ lt = "date" -> Ok(PrimT("date"), c)
          [] t = "long" /\ lt = "timestamp-micros" -> Ok(PrimT("timestamp"), c)
          [] t = "long" /\ lt = "time-micros" -> Ok(PrimT("time"), c)
          [] OTHER -> Err("unsupported logical type", c)

convertFixed(c, avsc) == Ok(FixedTypeOf(avsc.size), c)

RECURSIVE convertSchema(_, _)
RECURSIVE convertArray(_, _)
RECURSIVE convertField(_, _)
RECURSIVE convertLogicalMap(_, _)
RECURSIVE convertMap(_, _)
RECURSIVE convertFields(_, _, _, _)

\* A loop that goes on to the later fields after a failure and returns the
\* last failure it met.
RECURSIVE convertFieldsPastError(_, _, _, _)
convertFieldsPastError(c, fields, i, acc) ==
    IF i > Len(fields) THEN Ok(acc, c)
    ELSE LET f == convertField(c, fields[i]) IN
         IF f.st # "ok"
         THEN LET rest == convertFieldsPastError(f.c, fields, i + 1, acc) IN
              IF rest.st # "ok" THEN rest ELSE [f EXCEPT !.c = rest.c]
         ELSE convertFieldsPastError(f.c, fields, i + 1, Append(acc, f.v))

\* The loop shared by AvroToIceberg and convertRecord: fields in declared
\* order, returning at the first failure.
convertFields(c, fields, i, acc) ==
    IF i > Len(fields) THEN Ok(acc, c)
    ELSE LET f == convertField(c, fields[i]) IN
         IF f.st # "ok" THEN f
         ELSE convertFields(f.c, fields, i + 1, Append(acc, f.v))

convertRecord(c, avsc) ==
    LET fs == convertFields(c, avsc.fields, 1, <<>>) IN
    IF fs.st # "ok" THEN fs ELSE Ok(StructType(fs.v), fs.c)

convertSchema(c, avsc) ==
    IF HasLogical(avsc) THEN convertLogicalSchema(c, avsc)
    ELSE CASE avsc.t = "boolean" -> Ok(PrimT("boolean"), c)
           [] avsc.t = "bytes" -> Ok(PrimT("binary"), c)
           [] avsc.t = "double" -> Ok(PrimT("float64"), c)
           [] avsc.t = "float" -> Ok(PrimT("float32"), c)
           [] avsc.t = "int" -> Ok(PrimT("int32"), c)
           [] avsc.t = "long" -> Ok(PrimT("int64"), c)
           [] avsc.t = "string" -> Ok(PrimT("string"), c)
           [] avsc.t = "enum" -> Ok(PrimT("string"), c)
           [] avsc.t = "array" -> convertArray(c, avsc)
           [] avsc.t = "fixed" -> convertFixed(c, avsc)
           [] avsc.t = "map" -> convertMap(c, avsc)
           [] avsc.t = "record" -> convertRecord(c, avsc)
           [] OTHER -> Err("unexpected avro.Type", c)

convertArray(c, avsc) ==
    IF Prop(avsc.props, LOGICAL_TYPE_PROP) = StrV("map")
    THEN convertLogicalMap(c, avsc)
    ELSE LET u == resolveUnion(avsc.items) IN
         IF u.st # "ok" THEN Err(u.msg, c)
         ELSE LET elem == convertSchema(c, u.v) IN
              IF elem.st # "ok" THEN elem
              ELSE LET id == getElementID(elem.c, avsc) IN
                   IF id.st # "ok" THEN id
                   ELSE Ok(ListType(id.v, elem.v, u.required), id.c)

\* A convertField that resolves the field's own ID before it converts the
\* field's type.
convertFieldIdFirst(c, field) ==
    IF field.nil THEN Panic("nil pointer dereference", c)
    ELSE LET u == resolveUnion(field.type) IN
         IF u.st # "ok" THEN Err(u.msg, c)
         ELSE LET id == getFieldID(c, field) IN
              IF id.st # "ok" THEN id
              ELSE LET typ == convertSchema(id.c, u.v) IN
                   IF typ.st # "ok" THEN typ
                   ELSE Ok(NestedField(typ.v, id.v, field.name, u.required,
                                       field.doc, FieldDefault(field)), typ.c)

\* A convertField that leaves the write-default unset.
convertFieldNoDefault(c, field) ==
    IF field.nil THEN Panic("nil pointer dereference", c)
    ELSE LET u == resolveUnion(field.type) IN
         IF u.st # "ok" THEN Err(u.msg, c)
         ELSE LET typ == convertSchema(c, u.v) IN
              IF typ.st # "ok" THEN typ
              ELSE LET id == getFieldID(typ.c, field) IN
                   IF id.st # "ok" THEN id
                   ELSE Ok(NestedField(typ.v, id.v, field.name, u.required,
                                       field.doc, NilVal), id.c)

convertField(c, field) ==
    IF field.nil THEN Panic("nil pointer dereference", c)
    ELSE LET u == resolveUnion(field.type) IN
         IF u.st # "ok" THEN Err(u.msg, c)
         ELSE LET typ == convertSchema(c, u.v) IN
              IF typ.st # "ok" THEN typ
              ELSE LET id == getFieldID(typ.c, field) IN
                   IF id.st # "ok" THEN id
                   ELSE Ok(NestedField(typ.v, id.v, field.name, u.required,
                                       field.doc, FieldDefault(field)), id.c)

convertLogicalMap(c, avsc) ==
    IF avsc.items.t # "record" THEN Err("unsupported logical map type", c)
    ELSE LET fields == avsc.items.fields IN
         IF Len(fields) # 2 THEN Err("logical map must have 2 fields", c)
         ELSE LET key == convertField(c, fields[1]) IN
              IF key.st # "ok" THEN key
              ELSE LET value == convertField(key.c, fields[2]) IN
                   IF value.st # "ok" THEN value
                   ELSE Ok(MapType(key.v.ID, key.v.Type, value.v.ID,
                                   value.v.Type, value.v.Required), value.c)

\* A convertMap that resolves the value ID before the key ID.
convertMapValueIdFirst(c, avsc) ==
    LET u == resolveUnion(avsc.values) IN
    IF u.st # "ok" THEN Err(u.msg, c)
    ELSE LET valueType == convertSchema(c, u.v) IN
         IF valueType.st # "ok" THEN valueType
         ELSE LET vid == getValueID(valueType.c, avsc) IN
              IF vid.st # "ok" THEN vid
              ELSE LET kid == getKeyID(vid.c, avsc) IN
                   IF kid.st # "ok" THEN kid
                   ELSE Ok(MapType(kid.v, PrimT("string"), vid.v,
                                   valueType.v, u.required), kid.c)

convertMap(c, avsc) ==
    LET u == resolveUnion(avsc.values) IN
    IF u.st # "ok" THEN Err(u.msg, c)
    ELSE LET valueType == convertSchema(c, u.v) IN
         IF valueType.st # "ok" THEN valueType
         ELSE LET kid == getKeyID(valueType.c, avsc) IN
              IF kid.st # "ok" THEN kid
              ELSE LET vid == getValueID(kid.c, avsc) IN
                   IF vid.st # "ok" THEN vid
                   ELSE Ok(MapType(kid.v, PrimT("string"), vid.v,
                                   valueType.v, u.required), vid.c)

\* AvroToIceberg run with the converter c0; c is the converter's counter
\* when the call returns.
AvroToIcebergFrom(c0, schema) ==
    IF schema.t # "record" THEN Err("schema must be a record", c0)
    ELSE LET fs == convertFields(c0, schema.fields, 1, <<>>) IN
         IF fs.st # "ok" THEN fs ELSE Ok(NewSchema(0, fs.v), fs.c)

(***************************************************************************)
(* The identifier sanitizer.  A name is a sequence of runes, each a        *)
(* one-rune string; "U+20AC" stands for a rune outside ASCII that is       *)
(* neither a letter nor a digit.                                           *)
(***************************************************************************)
LowerSeq == <<"a", "b", "c", "d", "e", "f", "g", "h", "i", "j", "k", "l", "m",
              "n", "o", "p", "q", "r", "s", "t", "u", "v", "w", "x", "y", "z">>
UpperSeq == <<"A", "B", "C", "D", "E", "F", "G", "H", "I", "J", "K", "L", "M",
              "N", "O", "P", "Q", "R", "S", "T", "U", "V", "W", "X", "Y", "Z">>
Range(seq) == {seq[i] : i \in DOMAIN seq}
IsLetter(r) == r \in Range(LowerSeq) \cup Range(UpperSeq)
IsDigit(r) == r \in {"0", "1", "2", "3", "4", "5", "6", "7", "8", "9"}

\* strings.ToUpper, rune by rune.
ToUpperRune(r) ==
    IF r \in Range(LowerSeq)
    THEN UpperSeq[CHOOSE i \in DOMAIN LowerSeq : LowerSeq[i] = r]
    ELSE r
ToUpper(s) == [i \in DOMAIN s |-> ToUpperRune(s[i])]

\* strconv.QuoteRuneToASCII: a single-quoted Go character literal.
QuoteRuneToASCII(r) ==
    CASE r = "'" -> <<"'", "\\", "'", "'">>
      [] r = "\\" -> <<"'", "\\", "\\", "'">>
      [] r = "U+20AC" -> <<"'", "\\", "u", "2", "0", "a", "c", "'">>
      [] OTHER -> <<"'", r, "'">>

sanitizeRune(r) ==
    IF IsDigit(r) THEN <<"_", r>>
    ELSE <<"_", "x">> \o ToUpper(QuoteRuneToASCII(r))

RECURSIVE sanitizeRest(_, _)
sanitizeRest(runes, i) ==
    IF i > Len(runes) THEN <<>>
    ELSE (IF ~(IsLetter(runes[i]) \/ IsDigit(runes[i]) \/ runes[i] = "_")
          THEN sanitizeRune(runes[i])
          ELSE <<runes[i]>>) \o sanitizeRest(runes, i + 1)

sanitize(name) ==
    IF Len(name) = 0 THEN [st |-> "err", msg |-> "name cannot be empty"]
    ELSE LET first == name[1]
             head == IF ~(IsLetter(first) \/ first = "_")
                     THEN sanitizeRune(first)
                     ELSE <<first>>
         IN  [st |-> "ok", v |-> head \o sanitizeRest(name, 2)]

(***************************************************************************)
(* stack.                                                                  *)
(***************************************************************************)
Push(s, v) == Append(s, v)
Peek(s) ==
    IF Len(s) = 0 THEN [st |-> "err", msg |-> "empty Stack"]
    ELSE [st |-> "ok", v |-> s[Len(s)]]
Pop(s) ==
    IF Len(s) = 0 THEN [st |-> "err", msg |-> "empty Stack", s |-> s]
    ELSE [st |-> "ok", v |-> s[Len(s)], s |-> SubSeq(s, 1, Len(s) - 1)]

(***************************************************************************)
(* ToAvroVisitor.  The visitor v is [depth, fieldIDs, schemaName]; a       *)
(* method that can panic returns Ok/Panic with the visitor in c.  Its log  *)
(* is a history of the BeforeField and AfterField calls made on it: the    *)
(* field's ID, the outcome of Pop, and depth and stack length afterwards.  *)
(***************************************************************************)
NewVisitor(tableName) ==
    [depth |-> 0, fieldIDs |-> <<>>, schemaName |-> tableName, log |-> <<>>]

Logged(op, id, popped, depth, fieldIDs) ==
    [op |-> op, id |-> id, popped |-> popped, depth |-> depth, len |-> Len(fieldIDs)]

BeforeField(v, field) ==
    [v EXCEPT !.depth = @ + 1, !.fieldIDs = Push(@, field.ID),
              !.log = Append(@, Logged("BeforeField", field.ID, [st |-> "none"],
                                       v.depth + 1, Push(v.fieldIDs, field.ID)))]

\* An AfterField that leaves the stack alone.
AfterFieldNoPop(v, field) ==
    [v EXCEPT !.depth = @ - 1,
              !.log = Append(@, Logged("AfterField", field.ID, [st |-> "none"],
                                       v.depth - 1, v.fieldIDs))]

AfterField(v, field) ==
    LET res == Pop(v.fieldIDs) IN
    [v EXCEPT !.depth = @ - 1, !.fieldIDs = res.s,
              !.log = Append(@, Logged("AfterField", field.ID,
                                       IF res.st = "ok" THEN [st |-> "ok", v |-> res.v]
                                       ELSE [st |-> "err"],
                                       v.depth - 1, res.s))]

\* A naming that numbers a nested record by its depth.
getStructNameByDepth(v, st) ==
    IF v.depth = 0 THEN [st |-> "ok", v |-> v.schemaName]
    ELSE [st |-> "ok", v |-> RName(v.depth)]

getStructName(v, st) ==
    IF v.depth = 0 THEN [st |-> "ok", v |-> v.schemaName]
    ELSE LET id == Peek(v.fieldIDs) IN
         IF id.st # "ok" THEN [st |-> "err", msg |-> "failed to get field ID for struct"]
         ELSE [st |-> "ok", v |-> RName(id.v)]

makeOptional(elemResult) == NewUnionSchema(<<NullSchema, elemResult>>)

newKeyValueRecord(keyID, valueID, keyResult, valueResult) ==
    LET kv == KVName(keyID, valueID)
        keySchema == NewField(<<"k", "e", "y">>, keyResult, "", NoDefault,
                              FIELD_ID_PROP :> IntV(keyID))
        valueSchema == NewField(<<"v", "a", "l", "u", "e">>, valueResult, "", NoDefault,
                                FIELD_ID_PROP :> IntV(valueID))
    IN  NewRecordSchema(kv, <<keySchema, valueSchema>>)

\* avro.NewField refuses a name that is not an identifier: a letter or
\* underscore followed by letters, digits and underscores.
validateName(name) ==
    /\ name # <<>>
    /\ IsLetter(name[1]) \/ name[1] = "_"
    /\ \A i \in 2..Len(name) : IsLetter(name[i]) \/ IsDigit(name[i]) \/ name[i] = "_"

\* A loop body that records the original name on every field.
StructFieldAlwaysNamed(stfield, fieldResult) ==
    LET sanitized == sanitize(stfield.Name) IN
    IF sanitized.st # "ok" THEN [st |-> "panic", msg |-> sanitized.msg]
    ELSE IF ~validateName(sanitized.v) THEN [st |-> "panic", msg |-> "avro: invalid name"]
    ELSE LET props == (FIELD_ID_PROP :> NumStr(stfield.ID))
                        @@ (ICEBERG_FIELD_NAME_PROP :>
                              [kind |-> "name", runes |-> stfield.Name])
             def == IF stfield.WriteDefault.kind # "nil" THEN stfield.WriteDefault
                    ELSE IF ~stfield.Required THEN NullDefault
                    ELSE NoDefault
         IN  [st |-> "ok",
              v |-> NewField(sanitized.v, fieldResult, stfield.Doc, def, props)]

\* The body of the loop of Struct: the wire field built from stfield.
StructField(stfield, fieldResult) ==
    LET sanitized == sanitize(stfield.Name) IN
    IF sanitized.st # "ok" THEN [st |-> "panic", msg |-> sanitized.msg]
    ELSE IF ~validateName(sanitized.v) THEN [st |-> "panic", msg |-> "avro: invalid name"]
    ELSE LET idProp == FIELD_ID_PROP :> NumStr(stfield.ID)
             props == IF sanitized.v # stfield.Name
                      THEN idProp @@ (ICEBERG_FIELD_NAME_PROP :>
                                        [kind |-> "name", runes |-> stfield.Name])
                      ELSE idProp
             def == IF stfield.WriteDefault.kind # "nil" THEN stfield.WriteDefault
                    ELSE IF ~stfield.Required THEN NullDefault
                    ELSE NoDefault
         IN  [st |-> "ok",
              v |-> NewField(sanitized.v, fieldResult, stfield.Doc, def, props)]

RECURSIVE StructFields(_, _, _, _)
StructFields(stfields, fieldResults, i, fields) ==
    IF i > Len(fieldResults) THEN [st |-> "ok", v |-> fields]
    ELSE LET f == StructField(stfields[i], fieldResults[i]) IN
         IF f.st # "ok" THEN f
         ELSE StructFields(stfields, fieldResults, i + 1, Append(fields, f.v))

\* fields := make([]*avro.Field, len(fieldResults)): that many nil entries.
MakeFields(n) == [i \in 1..n |-> NilField]

Struct(v, st, fieldResults) ==
    LET name == getStructName(v, st) IN
    IF name.st # "ok" THEN Panic(name.msg, v)
    ELSE LET fields == StructFields(st.FieldList, fieldResults, 1,
                                    MakeFields(Len(fieldResults)))
         IN  IF fields.st # "ok" THEN Panic(fields.msg, v)
             ELSE Ok(NewRecordSchema(name.v, fields.v), v)

\* A Field that wraps the required fields and leaves the optional ones bare.
FieldWrapsRequired(v, field, fieldResult) ==
    IF field.Required THEN makeOptional(fieldResult) ELSE fieldResult

Field(v, field, fieldResult) ==
    IF ~field.Required THEN makeOptional(fieldResult) ELSE fieldResult

List(v, list, elemResult) ==
    NewArraySchema(elemResult, ELEMENT_ID_PROP :> IntV(list.ElementID))

\* A Map that uses the native wire map whatever the key type.
MapNativeForAnyKey(v, mapType, keyResult, valueResult) ==
    NewMapSchema(valueResult,
                 (KEY_ID_PROP :> IntV(mapType.KeyID))
                   @@ (VALUE_ID_PROP :> IntV(mapType.ValueID)))

Map(v, mapType, keyResult, valueResult) ==
    IF keyResult.t = "string"
    THEN NewMapSchema(valueResult,
                      (KEY_ID_PROP :> IntV(mapType.KeyID))
                        @@ (VALUE_ID_PROP :> IntV(mapType.ValueID)))
    ELSE NewArraySchema(
             newKeyValueRecord(mapType.KeyID, mapType.ValueID, keyResult, valueResult),
             LOGICAL_TYPE_PROP :> StrV("map"))

Primitive(v, p) ==
    CASE p.k = "binary" -> Ok(Prim("bytes"), v)
      [] p.k = "boolean" -> Ok(Prim("boolean"), v)
      [] p.k = "float32" -> Ok(Prim("float"), v)
      [] p.k = "float64" -> Ok(Prim("double"), v)
      [] p.k = "int32" -> Ok(Prim("int"), v)
      [] p.k = "int64" -> Ok(Prim("long"), v)
      [] p.k = "string" -> Ok(Prim("string"), v)
      [] p.k = "uuid" ->
           Ok(NewFixedSchema(LitName("uuid_fixed"), 16, "uuid", 0, 0, NoProps), v)
      [] p.k = "fixed" ->
           Ok(NewFixedSchema(LitName("fixed"), p.len, "none", 0, 0, NoProps), v)
      [] p.k = "decimal" ->
           Ok(NewPrimitiveSchema("bytes", "decimal", p.precision, p.scale, NoProps), v)
      [] p.k = "date" -> Ok(LogicalPrim("int", "date"), v)
      [] p.k = "time" -> Ok(LogicalPrim("long", "time-micros"), v)
      [] p.k = "timestamp" ->
           Ok(NewPrimitiveSchema("long", "timestamp-millis", 0, 0,
                                 ADJUST_TO_UTC_PROP :> BoolV(FALSE)), v)
      [] p.k = "timestamptz" ->
           Ok(NewPrimitiveSchema("long", "timestamp-millis", 0, 0,
                                 ADJUST_TO_UTC_PROP :> BoolV(TRUE)), v)
      [] OTHER -> Panic("unexpected iceberg.PrimitiveType", v)

(***************************************************************************)
(* The schema visitor that drives ToAvroVisitor: depth-first, BeforeField  *)
(* and AfterField around the children of each struct field.                *)
(***************************************************************************)
RECURSIVE visitField(_, _)
RECURSIVE visitStruct(_, _)
RECURSIVE visitStructFields(_, _, _, _)

visitStructFields(v, fieldList, i, results) ==
    IF i > Len(fieldList) THEN Ok(results, v)
    ELSE LET f == fieldList[i]
             res == visitField(BeforeField(v, f), f)
         IN  IF res.st # "ok" THEN res
             ELSE LET after == AfterField(res.c, f) IN
                  visitStructFields(after, fieldList, i + 1,
                                    Append(results, Field(after, f, res.v)))

visitStruct(v, st) ==
    LET results == visitStructFields(v, st.FieldList, 1, <<>>) IN
    IF results.st # "ok" THEN results
    ELSE Struct(results.c, st, results.v)

visitList(v, obj) ==
    LET res == visitField(v, [Type |-> obj.Element, ID |-> obj.ElementID]) IN
    IF res.st # "ok" THEN res
    ELSE Ok(List(res.c, obj, res.v), res.c)

visitMap(v, obj) ==
    LET keyRes == visitField(v, [Type |-> obj.KeyType, ID |-> obj.KeyID]) IN
    IF keyRes.st # "ok" THEN keyRes
    ELSE LET valueRes == visitField(keyRes.c, [Type |-> obj.ValueType, ID |-> obj.ValueID]) IN
         IF valueRes.st # "ok" THEN valueRes
         ELSE Ok(Map(valueRes.c, obj, keyRes.v, valueRes.v), valueRes.c)

visitField(v, f) ==
    CASE f.Type.k = "struct" -> visitStruct(v, f.Type)
      [] f.Type.k = "list" -> visitList(v, f.Type)
      [] f.Type.k = "map" -> visitMap(v, f.Type)
      [] OTHER -> Primitive(v, f.Type)

Visit(sc, v) == visitStruct(v, StructType(sc.fields))

IcebergToAvro(tableName, sc) == Visit(sc, NewVisitor(tableName))

(***************************************************************************)
(* Schema.String(): the canonical text of a wire schema.  It keeps names,  *)
(* types, logical types, sizes, field names and member order, and drops    *)
(* documentation, defaults and custom properties.  Rendering a nil field   *)
(* dereferences a nil pointer.                                             *)
(***************************************************************************)
RECURSIVE SchemaString(_)
RECURSIVE FieldsString(_, _)

FieldsString(fields, i) ==
    IF i > Len(fields) THEN [st |-> "ok", v |-> <<>>]
    ELSE IF fields[i].nil THEN [st |-> "panic"]
    ELSE LET ty == SchemaString(fields[i].type)
             rest == FieldsString(fields, i + 1)
         IN  IF ty.st # "ok" THEN ty
             ELSE IF rest.st # "ok" THEN rest
             ELSE [st |-> "ok",
                   v |-> <<[name |-> fields[i].name, type |-> ty.v]>> \o rest.v]

SchemaString(w) ==
    CASE w.t = "record" ->
           LET fs == FieldsString(w.fields, 1) IN
           IF fs.st # "ok" THEN fs
           ELSE [st |-> "ok", v |-> [name |-> w.name, type |-> "record", fields |-> fs.v]]
      [] w.t = "array" ->
           LET it == SchemaString(w.items) IN
           IF it.st # "ok" THEN it
           ELSE [st |-> "ok", v |-> [type |-> "array", items |-> it.v]]
      [] w.t = "map" ->
           LET va == SchemaString(w.values) IN
           IF va.st # "ok" THEN va
           ELSE [st |-> "ok", v |-> [type |-> "map", values |-> va.v]]
      [] w.t = "union" ->
           LET ms == [i \in DOMAIN w.types |-> SchemaString(w.types[i])] IN
           IF \E i \in DOMAIN ms : ms[i].st # "ok" THEN [st |-> "panic"]
           ELSE [st |-> "ok", v |-> [type |-> "union",
                                     types |-> [i \in DOMAIN ms |-> ms[i].v]]]
      [] w.t = "fixed" ->
           [st |-> "ok", v |-> [name |-> w.name, type |-> "fixed", size |-> w.size,
                                logicalType |-> w.lt, precision |-> w.prec,
                                scale |-> w.scale]]
      [] w.t = "enum" -> [st |-> "ok", v |-> [name |-> w.name, type |-> "enum"]]
      [] OTHER ->
           [st |-> "ok", v |-> [type |-> w.t, logicalType |-> w.lt,
                                precision |-> w.prec, scale |-> w.scale]]

(***************************************************************************)
(* Bounds.                                                                 *)
(***************************************************************************)
\* Top-level fields of the generated multi-field schemas.
MaxFields == 2
\* Calls made in one run.
MaxCalls == 2

(***************************************************************************)
(* Wire schemas handed to AvroToIceberg, as avro.MustParse builds them     *)
(* from JSON text: numbers are float64.  A schema is generated with an     *)
(* identity property on every node (pairwise distinct) and then some of    *)
(* the properties are removed.                                             *)
(***************************************************************************)
IdStride == 10
MaxNameLen == 2
IdKeys == {FIELD_ID_PROP, ELEMENT_ID_PROP, KEY_ID_PROP, VALUE_ID_PROP}

WField(name, type, id, doc, def) ==
    NewField(name, type, doc, def, FIELD_ID_PROP :> F64(id))
WArray(items, id) == NewArraySchema(items, ELEMENT_ID_PROP :> F64(id))
WMap(values, id) ==
    NewMapSchema(values, (KEY_ID_PROP :> F64(id)) @@ (VALUE_ID_PROP :> F64(id + 1)))
Nullable(t) == NewUnionSchema(<<NullSchema, t>>)
NullableLast(t) == NewUnionSchema(<<t, NullSchema>>)

WireLeaves ==
    {Prim(t) : t \in PrimitiveTypes}
      \cup {EnumSchema(LitName("suit")),
            NewFixedSchema(LitName("fixed"), 22, "none", 0, 0, NoProps),
            NewFixedSchema(LitName("uuid_fixed"), 16, "uuid", 0, 0, NoProps),
            NewFixedSchema(LitName("fixed"), 16, "decimal", 20, 15, NoProps),
            NewFixedSchema(LitName("fixed"), 16, "decimal", 20, 15,
                           ("precision" :> F64(20)) @@ ("scale" :> F64(15))),
            LogicalPrim("int", "date"),
            LogicalPrim("long", "time-micros"),
            LogicalPrim("long", "timestamp-micros"),
            NewPrimitiveSchema("long", "timestamp-millis", 0, 0,
                               ADJUST_TO_UTC_PROP :> BoolV(TRUE)),
            NewPrimitiveSchema("long", "timestamp-micros", 0, 0,
                               ADJUST_TO_UTC_PROP :> BoolV(TRUE)),
            NewPrimitiveSchema("long", "timestamp-micros", 0, 0,
                               ADJUST_TO_UTC_PROP :> BoolV(FALSE)),
            NewPrimitiveSchema("bytes", "decimal", 9, 2, NoProps)}

\* Unions no conversion accepts, and the two accepted shapes.
UnionInputs ==
    {NewUnionSchema(<<>>),
     NewUnionSchema(<<Prim("string")>>),
     NewUnionSchema(<<NullSchema>>),
     NewUnionSchema(<<NullSchema, NullSchema>>),
     NewUnionSchema(<<Prim("string"), Prim("long")>>),
     NewUnionSchema(<<NullSchema, Prim("string"), Prim("long")>>),
     NewUnionSchema(<<Prim("string"), Prim("long"), NullSchema>>),
     NewUnionSchema(<<Prim("string"), Prim("long"), Prim("int")>>)}
      \cup {Nullable(t) : t \in WireLeaves \ {NullSchema}}
      \cup {NullableLast(t) : t \in WireLeaves \ {NullSchema}}

\* A nested record whose fields hold a primitive, an array and a map
\* (the shape of TestAvroAssignIDs), named after the field that holds it.
NestedRecord(b) ==
    NewRecordSchema(RName(b),
        <<WField(<<"n", "1">>, Prim("int"), b + 1, "", NoDefault),
          WField(<<"n", "2">>, WArray(Prim("long"), b + 2), b + 3, "", NoDefault),
          WField(<<"n", "3">>, WMap(Prim("string"), b + 4), b + 6, "", NoDefault)>>)

\* The element record of the manifest-file schema: optional fields.
ElementRecord(b) ==
    NewRecordSchema(RName(b),
        <<WField(<<"c", "n">>, Prim("boolean"), b + 1, "a doc", NoDefault),
          WField(<<"l", "b">>, Nullable(Prim("bytes")), b + 2, "", NullDefault)>>)

\* The map-encoding fallback: an array tagged as a logical map.
LogicalMapArray(items) == NewArraySchema(items, LOGICAL_TYPE_PROP :> StrV("map"))
KeyValueRecord(b, keyType, valueType) ==
    NewRecordSchema(KVName(b + 1, b + 2),
        <<WField(<<"k", "e", "y">>, keyType, b + 1, "", NoDefault),
          WField(<<"v", "a", "l", "u", "e">>, valueType, b + 2, "", NoDefault)>>)

\* Types of a field whose own ID is b; the nodes beneath use b+1 .. b+9.
SmallTypes(b) ==
    {Prim("string"),
     Nullable(Prim("long")),
     WArray(Prim("long"), b + 1),
     WMap(Nullable(Prim("string")), b + 1)}

RichTypes(b) ==
    WireLeaves \cup UnionInputs \cup SmallTypes(b)
      \cup {WArray(Nullable(Prim("string")), b + 1),
            WArray(NullableLast(Prim("string")), b + 1),
            WArray(ElementRecord(b + 1), b + 1),
            WArray(WArray(Prim("int"), b + 1), b + 2),
            WArray(NewUnionSchema(<<Prim("string"), Prim("long")>>), b + 1),
            WArray(LogicalPrim("int", "time-micros"), b + 1),
            Nullable(WArray(ElementRecord(b + 1), b + 1)),
            WMap(Prim("long"), b + 1),
            WMap(NestedRecord(b + 2), b + 1),
            WMap(NewUnionSchema(<<>>), b + 1),
            Nullable(WMap(Prim("long"), b + 1)),
            NestedRecord(b),
            Nullable(NestedRecord(b)),
            NewRecordSchema(RName(b), <<>>),
            NewRecordSchema(LitName("record_1"),
                <<WField(<<"n", "1">>, NestedRecord(b + 1), b + 1, "", NoDefault)>>),
            LogicalMapArray(KeyValueRecord(b, Prim("int"), Prim("string"))),
            LogicalMapArray(KeyValueRecord(b, Prim("long"), Nullable(Prim("string")))),
            LogicalMapArray(Prim("string")),
            LogicalMapArray(NewRecordSchema(KVName(b + 1, b + 2),
                <<WField(<<"k", "e", "y">>, Prim("int"), b + 1, "", NoDefault)>>))}

\* Documentation and default of a field, by its type.
DocDefs(type) ==
    {<<"", NoDefault>>, <<"a doc", NoDefault>>}
      \cup (IF type \in {Prim("string"), NullableLast(Prim("string"))}
            THEN {<<"a doc", StrV("empty")>>} ELSE {})
      \cup (IF type.t = "union" /\ Len(type.types) = 2 /\ type.types[1].t = "null"
            THEN {<<"", NullDefault>>} ELSE {})

FieldNames == <<<<"a">>, <<"b">>, <<"c">>, <<"d">>>>

TopFields(i, types) ==
    {WField(FieldNames[i], ty, (i - 1) * IdStride, dd[1], dd[2]) :
        <<ty, dd>> \in {<<t, d>> \in types \X {<<"", NoDefault>>, <<"a doc", NoDefault>>,
                                              <<"a doc", StrV("empty")>>, <<"", NullDefault>>} :
                            d \in DocDefs(t)}}

RECURSIVE FieldLists(_, _)
\* All lists of n top-level fields over the small types, without docs.
FieldLists(n, i) ==
    IF i > n THEN {<<>>}
    ELSE {<<WField(FieldNames[i], ty, (i - 1) * IdStride, "", NoDefault)>> \o rest :
             ty \in SmallTypes((i - 1) * IdStride), rest \in FieldLists(n, i + 1)}

TopName == LitName("avro_schema")

FullWireSchemas ==
    {NewRecordSchema(TopName, <<f>>) : f \in TopFields(1, RichTypes(0))}
      \cup UNION {{NewRecordSchema(TopName, fs) : fs \in FieldLists(n, 1)} : n \in 2..MaxFields}
      \cup {NewRecordSchema(TopName, <<>>),
            NewRecordSchema(TopName,
                <<WField(<<"a">>, Prim("string"), 0, "", NoDefault),
                  WField(<<"b">>, NestedRecord(IdStride), IdStride, "", NoDefault),
                  WField(<<"c">>, Prim("long"), 2 * IdStride, "", NoDefault)>>)}

\* Field types that fail to convert, each with its own error, next to two
\* that convert; none carries an identity property.
FailingTypes ==
    {Prim("string"),
     NewArraySchema(Prim("long"), NoProps),
     NewUnionSchema(<<Prim("string"), Prim("long")>>),
     NewUnionSchema(<<NullSchema, Prim("string"), Prim("long")>>),
     LogicalPrim("long", "local-timestamp-micros"),
     LogicalMapArray(Prim("string")),
     NullSchema,
     NewRecordSchema(LitName("record_1"),
         <<NewField(<<"n", "1">>, Prim("int"), "", NoDefault, NoProps),
           NewField(<<"n", "2">>, NullSchema, "", NoDefault, NoProps),
           NewField(<<"n", "3">>, NewUnionSchema(<<>>), "", NoDefault, NoProps)>>)}

RECURSIVE FailingFieldLists(_, _)
FailingFieldLists(n, i) ==
    IF i > n THEN {<<>>}
    ELSE {<<NewField(FieldNames[i], ty, "", NoDefault, NoProps)>> \o rest :
             ty \in FailingTypes, rest \in FailingFieldLists(n, i + 1)}

FailingSchemas ==
    UNION {{NewRecordSchema(TopName, fs) : fs \in FailingFieldLists(n, 1)} :
              n \in 1..MaxFields}

RECURSIVE AllIds(_)
PropIds(props) == {props[k].n : k \in DOMAIN props \cap IdKeys}
AllIds(w) ==
    CASE w.t = "record" ->
           UNION {PropIds(w.fields[i].props) \cup AllIds(w.fields[i].type) :
                     i \in DOMAIN w.fields}
      [] w.t = "array" -> PropIds(w.props) \cup AllIds(w.items)
      [] w.t = "map" -> PropIds(w.props) \cup AllIds(w.values)
      [] w.t = "union" -> UNION {AllIds(w.types[i]) : i \in DOMAIN w.types}
      [] OTHER -> {}

RECURSIVE Strip(_, _)
StripProps(props, keep) ==
    LET dom == {k \in DOMAIN props : ~(k \in IdKeys /\ props[k].n \notin keep)}
    IN  [k \in dom |-> props[k]]
Strip(w, keep) ==
    CASE w.t = "record" ->
           [w EXCEPT !.fields =
               [i \in DOMAIN w.fields |->
                   [w.fields[i] EXCEPT !.type = Strip(@, keep),
                                       !.props = StripProps(@, keep)]]]
      [] w.t = "array" ->
           [w EXCEPT !.items = Strip(@, keep), !.props = StripProps(@, keep)]
      [] w.t = "map" ->
           [w EXCEPT !.values = Strip(@, keep), !.props = StripProps(@, keep)]
      [] w.t = "union" ->
           [w EXCEPT !.types = [i \in DOMAIN w.types |-> Strip(w.types[i], keep)]]
      [] OTHER -> w

\* Which identity properties are kept: all, none, all but one, only one.
KeepSets(w) ==
    LET ids == AllIds(w) IN
    {ids, {}} \cup {ids \ {i} : i \in ids} \cup {{i} : i \in ids}

WireInputs ==
    UNION {{Strip(w, keep) : keep \in KeepSets(w)} : w \in FullWireSchemas}
      \cup FailingSchemas
      \cup {NewArraySchema(Prim("string"), NoProps), Prim("string")}

(***************************************************************************)
(* Catalog schemas handed to IcebergToAvro.                                *)
(***************************************************************************)
CatalogPrimitives ==
    {PrimT(k) : k \in {"boolean", "int32", "int64", "float32", "float64", "string",
                       "binary", "date", "time", "timestamp", "timestamptz", "uuid"}}
      \cup {FixedTypeOf(22), DecimalTypeOf(20, 15)}

CField(name, type, id, required) == NestedField(type, id, name, required, "", NilVal)

CatalogStruct(b) ==
    StructType(<<CField(<<"n", "1">>, PrimT("int32"), b + 1, TRUE),
                 CField(<<"n", "2">>, PrimT("binary"), b + 2, FALSE)>>)

CatalogSmallTypes(b) ==
    {PrimT("string"),
     ListType(b + 1, PrimT("int64"), TRUE),
     MapType(b + 1, PrimT("string"), b + 2, PrimT("int64"), FALSE)}

CatalogRichTypes(b) ==
    CatalogPrimitives \cup CatalogSmallTypes(b)
      \cup {ListType(b + 1, PrimT("string"), FALSE),
            ListType(b + 1, CatalogStruct(b + 1), TRUE),
            ListType(b + 1, ListType(b + 2, CatalogStruct(b + 2), TRUE), TRUE),
            MapType(b + 1, PrimT("string"), b + 2, PrimT("int64"), TRUE),
            MapType(b + 1, PrimT("string"), b + 2, CatalogStruct(b + 2), TRUE),
            MapType(b + 1, PrimT("int32"), b + 2, PrimT("string"), TRUE),
            MapType(b + 1, PrimT("int64"), b + 2, PrimT("string"), FALSE),
            MapType(b + 1, CatalogStruct(b + 2), b + 2, CatalogStruct(b + 4), TRUE),
            CatalogStruct(b),
            StructType(<<>>),
            StructType(<<CField(<<"n", "1">>, CatalogStruct(b + 1), b + 1, TRUE)>>)}

CatalogNames == {<<"a">>, <<"_", "a", "1">>, <<"1", "a">>, <<"a", "-", "b">>, <<>>}

RECURSIVE CatalogFieldLists(_, _)
CatalogFieldLists(n, i) ==
    IF i > n THEN {<<>>}
    ELSE {<<CField(FieldNames[i], ty, (i - 1) * IdStride, req)>> \o rest :
             ty \in CatalogSmallTypes((i - 1) * IdStride), req \in BOOLEAN,
             rest \in CatalogFieldLists(n, i + 1)}

IceInputs ==
    {NewSchema(0, <<NestedField(ty, 0, name, req, doc, NilVal)>>) :
        ty \in CatalogRichTypes(0), name \in CatalogNames, req \in BOOLEAN,
        doc \in {"", "a doc"}}
      \cup {NewSchema(0, <<NestedField(PrimT("string"), 0, <<"a">>, req, "", StrV("empty"))>>) :
               req \in BOOLEAN}
      \cup UNION {{NewSchema(0, fs) : fs \in CatalogFieldLists(n, 1)} : n \in 2..MaxFields}
      \cup {NewSchema(0, <<>>)}

TableName == LitName("tbl")

\* The names handed to sanitize: every string of up to MaxNameLen runes
\* over a letter, the underscore, a digit, an ASCII punctuation mark and a
\* rune outside ASCII; the empty string among them.
NameRunes == {"a", "_", "1", "-", "U+20AC"}
RECURSIVE NamesOfLen(_)
NamesOfLen(n) ==
    IF n = 0 THEN {<<>>}
    ELSE {Append(name, r) : name \in NamesOfLen(n - 1), r \in NameRunes}
Names == UNION {NamesOfLen(n) : n \in 0..MaxNameLen}

(***************************************************************************)
(* The state: the calls made so far (trail) and, for each entry point,     *)
(* the argument and the result of its latest call.                         *)
(***************************************************************************)
VARIABLES
    trail,       \* entry points called so far, oldest first
    wireIn,      \* argument of the latest AvroToIceberg call
    iceOut,      \* its result: [st, v] with v the catalog schema
    prevOut,     \* the result of the AvroToIceberg call before it
    idCounter,   \* idCounter of the latest converter when its call returned
    iceIn,       \* argument (name, sc) of the latest IcebergToAvro call
    wireOut,     \* its result: [st, v] with v the wire schema
    visitor,     \* depth, fieldIDs and log of the latest visitor when its call returned
    unionIn,     \* argument of the latest resolveUnion call
    unionOut,    \* its result
    sanitizeIn,  \* argument of the latest sanitize call
    sanitizeOut, \* its result
    prevSanitizeIn,  \* argument of the sanitize call before it
    prevSanitizeOut  \* its result

vars == <<trail, wireIn, iceOut, prevOut, idCounter, iceIn, wireOut, visitor,
          unionIn, unionOut, sanitizeIn, sanitizeOut, prevSanitizeIn, prevSanitizeOut>>

sanitizeVars == <<sanitizeIn, sanitizeOut, prevSanitizeIn, prevSanitizeOut>>

None == [st |-> "none"]
Result(r) == IF r.st = "ok" THEN [st |-> "ok", v |-> r.v] ELSE [st |-> r.st, msg |-> r.msg]
Last(s) == s[Len(s)]

Init ==
    /\ trail = <<>>
    /\ wireIn = NullSchema
    /\ iceOut = None
    /\ prevOut = None
    /\ idCounter = 0
    /\ iceIn = [name |-> TableName, sc |-> NewSchema(0, <<>>)]
    /\ wireOut = None
    /\ visitor = [depth |-> 0, fieldIDs |-> <<>>, log |-> <<>>]
    /\ unionIn = NullSchema
    /\ unionOut = None
    /\ sanitizeIn = <<>>
    /\ sanitizeOut = None
    /\ prevSanitizeIn = <<>>
    /\ prevSanitizeOut = None

\* The wire schemas the next AvroToIceberg call can be given: a parsed
\* schema, the same schema again, or the schema IcebergToAvro returned.
NextWire ==
    IF trail = <<>> THEN WireInputs
    ELSE IF Last(trail) = "AvroToIceberg" THEN {wireIn}
    ELSE IF Last(trail) = "IcebergToAvro" /\ wireOut.st = "ok" THEN {wireOut.v}
    ELSE {}

\* A converter that starts from the counter the previous call left behind.
NewConverterShared == idCounter

\* converter := &toIcebergConverter{idCounter: 0}
NewConverter == 0

\* AvroToIceberg(schema)
CallAvroToIceberg ==
    /\ Len(trail) < MaxCalls
    /\ \E schema \in NextWire :
         LET r == AvroToIcebergFrom(NewConverter, schema) IN
         /\ wireIn' = schema
         /\ prevOut' = iceOut
         /\ iceOut' = Result(r)
         /\ idCounter' = r.c
    /\ trail' = Append(trail, "AvroToIceberg")
    /\ UNCHANGED <<iceIn, wireOut, visitor, unionIn, unionOut, sanitizeVars>>

\* The catalog schemas the next IcebergToAvro call can be given: a schema
\* built by the caller, or the schema AvroToIceberg returned, under the
\* name of the wire record it came from.
NextIce ==
    IF trail = <<>> THEN {[name |-> TableName, sc |-> sc] : sc \in IceInputs}
    ELSE IF Last(trail) = "AvroToIceberg" /\ iceOut.st = "ok"
    THEN {[name |-> wireIn.name, sc |-> iceOut.v]}
    ELSE {}

\* IcebergToAvro(tableName, sc)
CallIcebergToAvro ==
    /\ Len(trail) < MaxCalls
    /\ \E in \in NextIce :
         LET r == IcebergToAvro(in.name, in.sc) IN
         /\ iceIn' = in
         /\ wireOut' = Result(r)
         /\ visitor' = [depth |-> r.c.depth, fieldIDs |-> r.c.fieldIDs, log |-> r.c.log]
    /\ trail' = Append(trail, "IcebergToAvro")
    /\ UNCHANGED <<wireIn, iceOut, prevOut, idCounter, unionIn, unionOut, sanitizeVars>>

\* resolveUnion(avsc)
CallResolveUnion ==
    /\ trail = <<>>
    /\ \E avsc \in UnionInputs \cup WireLeaves :
         /\ unionIn' = avsc
         /\ unionOut' = resolveUnion(avsc)
    /\ trail' = Append(trail, "resolveUnion")
    /\ UNCHANGED <<wireIn, iceOut, prevOut, idCounter, iceIn, wireOut, visitor, sanitizeVars>>

\* sanitize(name), on its own or after another sanitize call
CallSanitize ==
    /\ Len(trail) < MaxCalls
    /\ IF trail = <<>> THEN TRUE ELSE Last(trail) = "sanitize"
    /\ \E name \in Names :
         /\ sanitizeIn' = name
         /\ sanitizeOut' = sanitize(name)
    /\ prevSanitizeIn' = sanitizeIn
    /\ prevSanitizeOut' = sanitizeOut
    /\ trail' = Append(trail, "sanitize")
    /\ UNCHANGED <<wireIn, iceOut, prevOut, idCounter, iceIn, wireOut, visitor,
                   unionIn, unionOut>>

Next == CallAvroToIceberg \/ CallIcebergToAvro \/ CallResolveUnion \/ CallSanitize

Spec == Init /\ [][Next]_vars

(***************************************************************************)
(* Observers used by the properties.                                       *)
(***************************************************************************)
A2I == "AvroToIceberg"
I2A == "IcebergToAvro"
LastCalls(a, b) == Len(trail) >= 2 /\ trail[Len(trail) - 1] = a /\ trail[Len(trail)] = b
Converted == Len(trail) >= 1 /\ Last(trail) = A2I /\ iceOut.st = "ok"

\* One identity-bearing node of a converted wire schema: its identity
\* property p (NilVal when absent), the ID the catalog schema has for it, the
\* number n of identity-bearing nodes beneath it, and for a record field
\* the wire field wf and the catalog field nf.
Draw(kind, p, id, n, wf, nf) ==
    [kind |-> kind, p |-> p, id |-> id, n |-> n, wf |-> wf, nf |-> nf]

RECURSIVE TypeDraws(_, _)
RECURSIVE FieldsDraws(_, _, _)

\* The identity-bearing nodes of wire type w converted to catalog type ty,
\* children before their parent, siblings in declared order.
TypeDraws(w, ty) ==
    CASE w.t = "record" -> FieldsDraws(w.fields, ty.FieldList, 1)
      [] w.t = "array" /\ Prop(w.props, LOGICAL_TYPE_PROP) = StrV("map") ->
           LET kf == w.items.fields[1]
               vf == w.items.fields[2]
               kd == TypeDraws(resolveUnion(kf.type).v, ty.KeyType)
               vd == TypeDraws(resolveUnion(vf.type).v, ty.ValueType)
           IN  kd \o <<Draw("kvfield", Prop(kf.props, FIELD_ID_PROP), ty.KeyID,
                            Len(kd), kf, NilField)>>
                  \o vd \o <<Draw("kvfield", Prop(vf.props, FIELD_ID_PROP), ty.ValueID,
                                  Len(vd), vf, NilField)>>
      [] w.t = "array" ->
           LET ed == TypeDraws(resolveUnion(w.items).v, ty.Element) IN
           ed \o <<Draw("element", Prop(w.props, ELEMENT_ID_PROP), ty.ElementID,
                        Len(ed), NilField, NilField)>>
      [] w.t = "map" ->
           LET vd == TypeDraws(resolveUnion(w.values).v, ty.ValueType) IN
           vd \o <<Draw("key", Prop(w.props, KEY_ID_PROP), ty.KeyID,
                        Len(vd), NilField, NilField),
                   Draw("value", Prop(w.props, VALUE_ID_PROP), ty.ValueID,
                        Len(vd) + 1, NilField, NilField)>>
      [] OTHER -> <<>>

FieldsDraws(fields, nfs, i) ==
    IF i > Len(fields) THEN <<>>
    ELSE LET td == TypeDraws(resolveUnion(fields[i].type).v, nfs[i].Type) IN
         td \o <<Draw("field", Prop(fields[i].props, FIELD_ID_PROP), nfs[i].ID,
                      Len(td), fields[i], nfs[i])>>
            \o FieldsDraws(fields, nfs, i + 1)

\* The nodes of the latest conversion (defined when Converted).
SchemaDraws == FieldsDraws(wireIn.fields, iceOut.v.fields, 1)

Absent(d) == d.p.kind = "nil"
SelectSeqIds(draws) ==
    LET sel == SelectSeq(draws, Absent) IN [i \in DOMAIN sel |-> sel[i].id]
Distinct(seq) == \A i, j \in DOMAIN seq : i # j => seq[i] # seq[j]
Iota(n) == [i \in 1..n |-> i - 1]

\* IDs, types and required flags of a catalog type, without names,
\* documentation and defaults.
RECURSIVE Shape(_)
Shape(ty) ==
    CASE ty.k = "struct" ->
           [k |-> "struct",
            FieldList |-> [i \in DOMAIN ty.FieldList |->
                              [ID |-> ty.FieldList[i].ID,
                               Required |-> ty.FieldList[i].Required,
                               Type |-> Shape(ty.FieldList[i].Type)]]]
      [] ty.k = "list" -> [ty EXCEPT !.Element = Shape(@)]
      [] ty.k = "map" -> [ty EXCEPT !.KeyType = Shape(@), !.ValueType = Shape(@)]
      [] OTHER -> ty
SchemaShape(sc) == Shape(StructType(sc.fields))

RECURSIVE NoNonStringKey(_)
NoNonStringKey(ty) ==
    CASE ty.k = "struct" ->
           \A i \in DOMAIN ty.FieldList : NoNonStringKey(ty.FieldList[i].Type)
      [] ty.k = "list" -> NoNonStringKey(ty.Element)
      [] ty.k = "map" -> ty.KeyType = PrimT("string") /\ NoNonStringKey(ty.ValueType)
      [] OTHER -> TRUE

IsNullableUnion(w) ==
    /\ w.t = "union"
    /\ Len(w.types) = 2
    /\ (w.types[1].t = "null") # (w.types[2].t = "null")

(***************************************************************************)
(* C1. Round trip catalog -> wire -> catalog: for a catalog schema with no *)
(* map keyed by a non-string type, IcebergToAvro succeeds, AvroToIceberg   *)
(* of its result succeeds, and the schema read back has the IDs, types and *)
(* required flags of the original.                                         *)
(***************************************************************************)
C1_RoundTripCatalog ==
    /\ (Len(trail) >= 1 /\ Last(trail) = I2A /\ NoNonStringKey(StructType(iceIn.sc.fields)))
          => wireOut.st = "ok"
    /\ (LastCalls(I2A, A2I) /\ NoNonStringKey(StructType(iceIn.sc.fields)))
          => (iceOut.st = "ok" /\ SchemaShape(iceOut.v) = SchemaShape(iceIn.sc))

(***************************************************************************)
(* C2. Round trip wire -> catalog -> wire: for an accepted wire schema     *)
(* whose every field, array and map carries its identity property,         *)
(* IcebergToAvro of the converted schema, under the name of the top        *)
(* record, has the same canonical text as the original.                    *)
(***************************************************************************)
C2_RoundTripWire ==
    (LastCalls(A2I, I2A) /\ \A i \in DOMAIN SchemaDraws : ~Absent(SchemaDraws[i]))
       => (wireOut.st = "ok" /\ SchemaString(wireOut.v) = SchemaString(wireIn))

(***************************************************************************)
(* C3. ID uniqueness: when the identity properties present in an accepted  *)
(* wire schema are pairwise distinct, all field, element, key and value    *)
(* IDs of the converted schema are pairwise distinct, whichever nodes      *)
(* carry a property.                                                       *)
(***************************************************************************)
ExplicitIds ==
    LET sel == SelectSeq(SchemaDraws, LAMBDA d : ~Absent(d)) IN
    [i \in DOMAIN sel |-> sel[i].p.n]
C3_IdsUnique ==
    (Converted /\ Distinct(ExplicitIds))
       => Distinct([i \in DOMAIN SchemaDraws |-> SchemaDraws[i].id])

C5_ParentDrawnFirst ==
    Converted =>
       \A i \in DOMAIN SchemaDraws :
          (SchemaDraws[i].kind = "field" /\ Absent(SchemaDraws[i])) =>
             \A j \in (i - SchemaDraws[i].n)..(i - 1) :
                Absent(SchemaDraws[j]) => SchemaDraws[i].id < SchemaDraws[j].id

(***************************************************************************)
(* C5 amended: a field whose ID is allocated gets a larger ID than every   *)
(* allocated ID beneath it (the field's ID is drawn after the IDs of the   *)
(* nested fields, element, key and value inside its type).                 *)
(***************************************************************************)
C5_ParentDrawnLast ==
    Converted =>
       \A i \in DOMAIN SchemaDraws :
          (SchemaDraws[i].kind = "field" /\ Absent(SchemaDraws[i])) =>
             \A j \in (i - SchemaDraws[i].n)..(i - 1) :
                Absent(SchemaDraws[j]) => SchemaDraws[i].id > SchemaDraws[j].id
C5_Witness ==
    /\ Converted
    /\ \E i \in DOMAIN SchemaDraws :
          /\ SchemaDraws[i].kind = "field"
          /\ SchemaDraws[i].n >= 5
          /\ \A j \in (i - SchemaDraws[i].n)..i : Absent(SchemaDraws[j])

(***************************************************************************)
(* C6. When no node carries an identity property, the IDs are 0, 1, 2, ... *)
(* without gaps in post-order: siblings in declared order, a field after   *)
(* everything inside its type, an element ID after the IDs inside the      *)
(* items, key ID then value ID after the IDs inside the values.            *)
(***************************************************************************)
C6_PostOrderIds ==
    (Converted /\ \A i \in DOMAIN SchemaDraws : Absent(SchemaDraws[i]))
       => [i \in DOMAIN SchemaDraws |-> SchemaDraws[i].id] = Iota(Len(SchemaDraws))
\* The schema of TestAvroAssignIDs: field1=0, nested_field1=1, element=2,
\* nested_field2=3, key=4, value=5, nested_field3=6, field2=7, field3=8.
C6_Witness ==
    /\ Converted
    /\ Len(wireIn.fields) = 3
    /\ \A i \in DOMAIN SchemaDraws : Absent(SchemaDraws[i])
    /\ [i \in DOMAIN SchemaDraws |-> SchemaDraws[i].kind]
          = <<"field", "field", "element", "field", "key", "value", "field", "field", "field">>
    /\ iceOut.v.fields[2].ID = 7
    /\ iceOut.v.fields[2].Type.FieldList[3].Type.KeyID = 4
    /\ iceOut.v.fields[3].ID = 8

(***************************************************************************)
(* C7. An identity property, when present, is the ID and draws nothing     *)
(* from the counter: the nodes without a property get 0, 1, 2, ... in      *)
(* order, and the counter ends at the number of such nodes.                *)
(***************************************************************************)
C7_ExplicitIdWins ==
    Converted =>
       /\ \A i \in DOMAIN SchemaDraws :
             ~Absent(SchemaDraws[i]) => SchemaDraws[i].id = SchemaDraws[i].p.n
       /\ SelectSeqIds(SchemaDraws) = Iota(Len(SelectSeq(SchemaDraws, Absent)))
       /\ idCounter = Len(SelectSeq(SchemaDraws, Absent))
\* TestAvroMapType: a field without field-id over a map with key-id and
\* value-id gets field ID 0.
C7_Witness ==
    /\ Converted
    /\ Len(SchemaDraws) = 3
    /\ SchemaDraws[1].kind = "key" /\ ~Absent(SchemaDraws[1])
    /\ SchemaDraws[2].kind = "value" /\ ~Absent(SchemaDraws[2])
    /\ SchemaDraws[3].kind = "field" /\ Absent(SchemaDraws[3])
    /\ SchemaDraws[3].id = 0
    /\ idCounter = 1

(***************************************************************************)
(* C8. resolveUnion, accepted shapes: a non-union is returned unchanged    *)
(* and required; the member of a one-member union is returned, required;   *)
(* of a two-member union with exactly one null the other member is         *)
(* returned, not required, whichever position null has.                    *)
(***************************************************************************)
ResolvedUnion == Len(trail) >= 1 /\ Last(trail) = "resolveUnion"
C8_UnionAccepted ==
    ResolvedUnion =>
       /\ unionIn.t # "union"
             => unionOut = [st |-> "ok", v |-> unionIn, required |-> TRUE]
       /\ (unionIn.t = "union" /\ Len(unionIn.types) = 1)
             => unionOut = [st |-> "ok", v |-> unionIn.types[1], required |-> TRUE]
       /\ IsNullableUnion(unionIn)
             => \E i \in 1..2 :
                   /\ unionIn.types[i].t # "null"
                   /\ unionOut = [st |-> "ok", v |-> unionIn.types[i], required |-> FALSE]
C8_Witness ==
    /\ ResolvedUnion
    /\ unionIn = NewUnionSchema(<<Prim("string"), NullSchema>>)
    /\ unionOut = [st |-> "ok", v |-> Prim("string"), required |-> FALSE]

(***************************************************************************)
(* C9. resolveUnion, rejected shapes: an empty union, a union of more than *)
(* two members, and a two-member union with no null or with two nulls are  *)
(* errors, never resolved to a type.                                       *)
(***************************************************************************)
C9_UnionRejected ==
    (ResolvedUnion /\ unionIn.t = "union"
        /\ (\/ Len(unionIn.types) = 0
            \/ Len(unionIn.types) > 2
            \/ (Len(unionIn.types) = 2 /\ ~IsNullableUnion(unionIn))))
       => unionOut.st = "err"

(***************************************************************************)
(* C10. Default carry-through: every catalog field converted from a wire   *)
(* field has the wire field's default as write-default (none when the      *)
(* wire field has none), the wire field's doc, and is optional exactly     *)
(* when the wire field's type is a nullable union.                         *)
(***************************************************************************)
C10_DefaultCarried ==
    Converted =>
       \A i \in DOMAIN SchemaDraws :
          SchemaDraws[i].kind = "field" =>
             LET wf == SchemaDraws[i].wf
                 nf == SchemaDraws[i].nf
             IN  /\ wf.def.kind = "none" => nf.WriteDefault = NilVal
                 /\ wf.def.kind = "null" => nf.WriteDefault = NilVal
                 /\ wf.def.kind \notin {"none", "null"} => nf.WriteDefault = wf.def
                 /\ nf.Doc = wf.doc
                 /\ nf.Required = ~IsNullableUnion(wf.type)
\* TestAvroUnionWithDefault: ["string", "null"] with default "empty".
C10_Witness ==
    /\ Converted
    /\ Len(wireIn.fields) = 1
    /\ wireIn.fields[1].type = NewUnionSchema(<<Prim("string"), NullSchema>>)
    /\ wireIn.fields[1].def = StrV("empty")
    /\ iceOut.v.fields[1].Type = PrimT("string")
    /\ iceOut.v.fields[1].Required = FALSE
    /\ iceOut.v.fields[1].WriteDefault = StrV("empty")
    /\ iceOut.v.fields[1].Doc = "a doc"


(***************************************************************************)
(* C11. All-or-nothing failure of AvroToIceberg: a top-level node that is  *)
(* not a record gives the error "schema must be a record"; a call that     *)
(* does not succeed returns no schema; and when some field fails with an   *)
(* error (bad union, unsupported logical type, malformed logical map,      *)
(* unexpected type, at any depth beneath it), the call returns the error   *)
(* of the first such field in declared order, and the converter has drawn  *)
(* nothing for any field after it.                                         *)
(***************************************************************************)
FieldOutcome(field) == convertField(0, field)
FailingFields(w) == {i \in DOMAIN w.fields : FieldOutcome(w.fields[i]).st # "ok"}
FirstFailing(w) == CHOOSE i \in FailingFields(w) : \A j \in FailingFields(w) : i <= j
RECURSIVE DrawnUpTo(_, _)
DrawnUpTo(w, k) == IF k = 0 THEN 0 ELSE DrawnUpTo(w, k - 1) + FieldOutcome(w.fields[k]).c
C11_FirstErrorReturned ==
    (Len(trail) >= 1 /\ Last(trail) = A2I) =>
       /\ wireIn.t # "record" => iceOut = [st |-> "err", msg |-> "schema must be a record"]
       /\ iceOut.st # "ok" => "v" \notin DOMAIN iceOut
       /\ wireIn.t = "record" =>
             IF FailingFields(wireIn) = {} THEN iceOut.st = "ok"
             ELSE LET k == FirstFailing(wireIn)
                      o == FieldOutcome(wireIn.fields[k])
                  IN  o.st = "err" =>
                         /\ iceOut = [st |-> "err", msg |-> o.msg]
                         /\ idCounter = DrawnUpTo(wireIn, k)
C11_Witness ==
    /\ Len(trail) >= 1 /\ Last(trail) = A2I
    /\ wireIn.t = "record" /\ FailingFields(wireIn) # {}
    /\ LET k == FirstFailing(wireIn) IN
       /\ iceOut = [st |-> "err", msg |-> FieldOutcome(wireIn.fields[k]).msg]
       /\ idCounter > 0
       /\ \E j \in k + 1..Len(wireIn.fields) :
             /\ FieldOutcome(wireIn.fields[j]).st = "err"
             /\ FieldOutcome(wireIn.fields[j]).msg # iceOut.msg

(***************************************************************************)
(* C12. Struct to record: the wire record IcebergToAvro builds for a       *)
(* catalog struct of n fields has exactly n fields, none of them empty,    *)
(* the i-th built from the i-th catalog field: its sanitized name, its     *)
(* field-id, its documentation.                                            *)
(***************************************************************************)
BuiltFrom(wf, nf) ==
    /\ ~wf.nil
    /\ wf.name = sanitize(nf.Name).v
    /\ Prop(wf.props, FIELD_ID_PROP) = NumStr(nf.ID)
    /\ wf.doc = nf.Doc
C12_StructToRecord ==
    (Len(trail) >= 1 /\ Last(trail) = I2A /\ wireOut.st = "ok") =>
       /\ Len(wireOut.v.fields) = Len(iceIn.sc.fields)
       /\ \A i \in DOMAIN iceIn.sc.fields :
             BuiltFrom(wireOut.v.fields[i], iceIn.sc.fields[i])

(***************************************************************************)
(* The nodes of a catalog type next to the wire nodes IcebergToAvro built  *)
(* for them, parents before children: the catalog type ty, the wire node   *)
(* w (inside its optional union, if any), how the node is reached (via:    *)
(* "top", "field", "element", "key", "value"), the ID of the field,        *)
(* element, key or value that holds it, and the ID fid of the nearest      *)
(* enclosing struct field.                                                 *)
(***************************************************************************)
RealFields(w) == SelectSeq(w.fields, LAMBDA f : ~f.nil)
Unwrap(w) == IF w.t = "union" THEN w.types[2] ELSE w
Node(ty, w, via, id, fid) == [ty |-> ty, w |-> w, via |-> via, id |-> id, fid |-> fid]

RECURSIVE Nodes(_, _, _, _, _)
RECURSIVE FieldNodes(_, _, _)
Nodes(ty, w, via, id, fid) ==
    <<Node(ty, w, via, id, fid)>> \o
    CASE ty.k = "struct" -> FieldNodes(ty.FieldList, RealFields(w), 1)
      [] ty.k = "list" -> Nodes(ty.Element, Unwrap(w.items), "element", ty.ElementID, fid)
      [] ty.k = "map" ->
           IF w.t = "map"
           THEN <<Node(ty.KeyType, Prim("string"), "key", ty.KeyID, fid)>>
                  \o Nodes(ty.ValueType, Unwrap(w.values), "value", ty.ValueID, fid)
           ELSE Nodes(ty.KeyType, Unwrap(w.items.fields[1].type), "key", ty.KeyID, fid)
                  \o Nodes(ty.ValueType, Unwrap(w.items.fields[2].type), "value",
                           ty.ValueID, fid)
      [] OTHER -> <<>>
FieldNodes(fl, rf, i) ==
    IF i > Len(fl) THEN <<>>
    ELSE Nodes(fl[i].Type, Unwrap(rf[i].type), "field", fl[i].ID, fl[i].ID)
           \o FieldNodes(fl, rf, i + 1)

ToAvroDone == Len(trail) >= 1 /\ Last(trail) = I2A /\ wireOut.st = "ok"
\* The nodes of the latest IcebergToAvro call (defined when ToAvroDone).
OutNodes == Nodes(StructType(iceIn.sc.fields), wireOut.v, "top", 0, 0)
StructNodes == SelectSeq(OutNodes, LAMBDA n : n.ty.k = "struct")

(***************************************************************************)
(* C13. Nested naming: the record of the top-level struct, and only it,    *)
(* has the name given by the caller; the record of a struct that is the    *)
(* type of a field with ID n is named "r" followed by n.                   *)
(***************************************************************************)
C13_NestedNaming ==
    ToAvroDone =>
       \A i \in DOMAIN StructNodes :
          LET n == StructNodes[i] IN
          /\ n.via = "top" => n.w.name = iceIn.name
          /\ n.via # "top" => n.w.name # iceIn.name
          /\ n.via = "field" => n.w.name = RName(n.id)
C13_Witness ==
    /\ ToAvroDone
    /\ \E i, j \in DOMAIN StructNodes :
          /\ StructNodes[i].via = "field" /\ StructNodes[j].via = "field"
          /\ StructNodes[i].id # StructNodes[j].id
          /\ StructNodes[i].w.name = RName(StructNodes[i].id)
          /\ StructNodes[j].w.name = RName(StructNodes[j].id)

(***************************************************************************)
(* C14. Naming of list elements: the record of a struct that is the        *)
(* element type of a list is named "r" followed by the list's element ID,  *)
(* not by the ID of the field that holds the list.                         *)
(***************************************************************************)
C14_ElementNaming ==
    ToAvroDone =>
       \A i \in DOMAIN StructNodes :
          StructNodes[i].via = "element" => StructNodes[i].w.name = RName(StructNodes[i].id)

(***************************************************************************)
(* C15. Record-name uniqueness: in the output of IcebergToAvro for a       *)
(* catalog schema whose IDs are pairwise distinct, no two records carry    *)
(* the same name, also when two structs are reached through the same       *)
(* field (the key and the value of a map, the element of a list).          *)
(***************************************************************************)
RECURSIVE RecordNames(_)
RECURSIVE FieldsRecordNames(_, _)
RecordNames(w) ==
    CASE w.t = "record" -> <<w.name>> \o FieldsRecordNames(RealFields(w), 1)
      [] w.t = "array" -> RecordNames(w.items)
      [] w.t = "map" -> RecordNames(w.values)
      [] w.t = "union" -> RecordNames(w.types[2])
      [] OTHER -> <<>>
FieldsRecordNames(rf, i) ==
    IF i > Len(rf) THEN <<>>
    ELSE RecordNames(rf[i].type) \o FieldsRecordNames(rf, i + 1)
CatalogIds == [i \in 1..Len(OutNodes) - 1 |-> OutNodes[i + 1].id]
C15_RecordNamesUnique ==
    (ToAvroDone /\ Distinct(CatalogIds)) => Distinct(RecordNames(wireOut.v))

(***************************************************************************)
(* C16. Map encoding selection: a catalog map becomes a native wire map    *)
(* carrying key-id and value-id exactly when its key converts to the wire  *)
(* string type; otherwise it becomes an array tagged logicalType "map"     *)
(* whose item is a record named "k" + keyID + "_v" + valueID with exactly  *)
(* two fields, "key" then "value", carrying field-id = keyID and valueID.  *)
(***************************************************************************)
MapNodes == SelectSeq(OutNodes, LAMBDA n : n.ty.k = "map")
NativeMap(n) ==
    /\ n.w.t = "map"
    /\ Prop(n.w.props, KEY_ID_PROP) = IntV(n.ty.KeyID)
    /\ Prop(n.w.props, VALUE_ID_PROP) = IntV(n.ty.ValueID)
LogicalMap(n) ==
    /\ n.w.t = "array"
    /\ Prop(n.w.props, LOGICAL_TYPE_PROP) = StrV("map")
    /\ n.w.items.t = "record"
    /\ n.w.items.name = KVName(n.ty.KeyID, n.ty.ValueID)
    /\ Len(n.w.items.fields) = 2
    /\ LET kf == n.w.items.fields[1]
           vf == n.w.items.fields[2]
       IN  /\ ~kf.nil /\ ~vf.nil
           /\ kf.name = <<"k", "e", "y">>
           /\ vf.name = <<"v", "a", "l", "u", "e">>
           /\ Prop(kf.props, FIELD_ID_PROP).kind # "nil"
           /\ Prop(kf.props, FIELD_ID_PROP).n = n.ty.KeyID
           /\ Prop(vf.props, FIELD_ID_PROP).kind # "nil"
           /\ Prop(vf.props, FIELD_ID_PROP).n = n.ty.ValueID
C16_MapEncoding ==
    ToAvroDone =>
       \A i \in DOMAIN MapNodes :
          IF MapNodes[i].ty.KeyType = PrimT("string")
          THEN NativeMap(MapNodes[i]) ELSE LogicalMap(MapNodes[i])
C16_Witness ==
    /\ ToAvroDone
    /\ \E i \in DOMAIN MapNodes :
          /\ MapNodes[i].ty.KeyType \in {PrimT("int32"), PrimT("int64")}
          /\ LogicalMap(MapNodes[i])

(***************************************************************************)
(* C17. Map fallback round trip: for a catalog map whose key is not a      *)
(* string, IcebergToAvro followed by AvroToIceberg gives back a map with   *)
(* the original key ID, key type, value ID, value type and value-required  *)
(* flag.                                                                   *)
(***************************************************************************)
C17_LogicalMapRoundTrip ==
    LastCalls(I2A, A2I) =>
       \A i \in DOMAIN iceIn.sc.fields :
          LET ty == iceIn.sc.fields[i].Type IN
          (ty.k = "map" /\ ty.KeyType # PrimT("string")) =>
             /\ iceOut.st = "ok"
             /\ Shape(iceOut.v.fields[i].Type) = Shape(ty)

(***************************************************************************)
(* C18. Lossless sanitization record: a wire field carries                 *)
(* iceberg-field-name, holding the original catalog name, if and only if   *)
(* sanitize changed the name; when the catalog name is already a valid     *)
(* identifier the wire field has that name and the property is absent.     *)
(***************************************************************************)
ValidName(name) ==
    /\ name # <<>>
    /\ IsLetter(name[1]) \/ name[1] = "_"
    /\ \A i \in 2..Len(name) : IsLetter(name[i]) \/ IsDigit(name[i]) \/ name[i] = "_"
\* The catalog fields of the latest IcebergToAvro call, each with the wire
\* field built from it.
FieldPairs ==
    UNION {{<<StructNodes[k].ty.FieldList[i], RealFields(StructNodes[k].w)[i]>> :
               i \in DOMAIN StructNodes[k].ty.FieldList} : k \in DOMAIN StructNodes}
OriginalName(wf) == Prop(wf.props, ICEBERG_FIELD_NAME_PROP)
C18_OriginalNameKept ==
    ToAvroDone =>
       \A p \in FieldPairs :
          LET nf == p[1]
              wf == p[2]
          IN  /\ (OriginalName(wf).kind # "nil") <=> (wf.name # nf.Name)
              /\ OriginalName(wf).kind # "nil"
                    => OriginalName(wf) = [kind |-> "name", runes |-> nf.Name]
              /\ ValidName(nf.Name)
                    => (wf.name = nf.Name /\ OriginalName(wf).kind = "nil")
              /\ ~ValidName(nf.Name) => wf.name # nf.Name
C18_Witness ==
    /\ ToAvroDone
    /\ \E p \in FieldPairs :
          /\ ~ValidName(p[1].Name)
          /\ p[2].name # p[1].Name
          /\ OriginalName(p[2]) = [kind |-> "name", runes |-> p[1].Name]
    /\ \E p \in FieldPairs :
          /\ ValidName(p[1].Name)
          /\ p[2].name = p[1].Name
          /\ OriginalName(p[2]).kind = "nil"

(***************************************************************************)
(* C19. Sanitizer output is a safe identifier: for every non-empty name,   *)
(* sanitize returns a string whose first character is a letter or the      *)
(* underscore and whose other characters are letters, digits or            *)
(* underscores; so sanitizing the result again changes nothing.            *)
(***************************************************************************)
Sanitized == Len(trail) >= 1 /\ Last(trail) = "sanitize"
C19_SafeIdentifier ==
    (Sanitized /\ sanitizeIn # <<>>) =>
       /\ sanitizeOut.st = "ok"
       /\ ValidName(sanitizeOut.v)
       /\ sanitize(sanitizeOut.v) = sanitizeOut

(***************************************************************************)
(* C20. Sanitizer injectivity: two different non-empty names never         *)
(* sanitize to the same string.                                            *)
(***************************************************************************)
C20_Injective ==
    (LastCalls("sanitize", "sanitize")
        /\ sanitizeIn # <<>> /\ prevSanitizeIn # <<>> /\ sanitizeIn # prevSanitizeIn)
       => sanitizeOut # prevSanitizeOut

(***************************************************************************)
(* C21. Fixed conversion: as the type of a field of the wire schema, a     *)
(* fixed node with a decimal logical type of precision p and scale s       *)
(* converts to decimal(p, s), a fixed node with the uuid logical type to   *)
(* uuid, and a fixed node of size n with no logical type to fixed(n).      *)
(***************************************************************************)
FixedExpected(w) ==
    CASE w.lt = "decimal" -> DecimalTypeOf(w.prec, w.scale)
      [] w.lt = "uuid" -> PrimT("uuid")
      [] OTHER -> FixedTypeOf(w.size)
C21_FixedConversion ==
    (Len(trail) >= 1 /\ Last(trail) = A2I /\ wireIn.t = "record"
        /\ Len(wireIn.fields) = 1 /\ ~wireIn.fields[1].nil) =>
       LET u == resolveUnion(wireIn.fields[1].type) IN
       (u.st = "ok" /\ u.v.t = "fixed") =>
          /\ iceOut.st = "ok"
          /\ iceOut.v.fields[1].Type = FixedExpected(u.v)

(***************************************************************************)
(* C22. Optional-field wrapping: for every struct field, the type of the   *)
(* wire field built from it is the union [null, T], null first, when the   *)
(* catalog field is not required, and T itself when it is required, T      *)
(* being the converted field type; its default is the write-default when   *)
(* one is set, otherwise an explicit null when the field is optional,      *)
(* otherwise none.                                                         *)
(***************************************************************************)
\* The field type of nf converted on its own, under the field's ID.
ConvertedType(nf) == visitField(BeforeField(NewVisitor(iceIn.name), nf), nf).v
ExpectedDefault(nf) ==
    IF nf.WriteDefault.kind # "nil" THEN nf.WriteDefault
    ELSE IF ~nf.Required THEN NullDefault
    ELSE NoDefault
C22_OptionalWrapping ==
    ToAvroDone =>
       \A p \in FieldPairs :
          LET nf == p[1]
              wf == p[2]
          IN  /\ nf.Required => wf.type = ConvertedType(nf)
              /\ ~nf.Required =>
                    wf.type = NewUnionSchema(<<NullSchema, ConvertedType(nf)>>)
              /\ wf.def = ExpectedDefault(nf)
C22_Witness ==
    /\ ToAvroDone
    /\ \E p \in FieldPairs :
          /\ ~p[1].Required
          /\ p[2].type = NewUnionSchema(<<NullSchema, ConvertedType(p[1])>>)
          /\ p[2].def = NullDefault
    /\ \E p \in FieldPairs :
          /\ p[1].Required
          /\ p[2].type.t # "union"
          /\ p[2].def = NoDefault

(***************************************************************************)
(* C23. Timestamp-with-timezone inference: as the type of a field of the   *)
(* wire schema, a long node with a timestamp logical type converts to      *)
(* timestamptz when its adjust-to-utc property is present and true, and to *)
(* timestamp otherwise.                                                    *)
(***************************************************************************)
IsTimestamp(w) == w.t = "long" /\ w.lt \in {"timestamp-micros", "timestamp-millis"}
C23_TimestampTz ==
    (Len(trail) >= 1 /\ Last(trail) = A2I /\ wireIn.t = "record"
        /\ Len(wireIn.fields) = 1 /\ ~wireIn.fields[1].nil) =>
       LET u == resolveUnion(wireIn.fields[1].type) IN
       (u.st = "ok" /\ IsTimestamp(u.v)) =>
          /\ iceOut.st = "ok"
          /\ iceOut.v.fields[1].Type =
                IF Prop(u.v.props, ADJUST_TO_UTC_PROP) = BoolV(TRUE)
                THEN PrimT("timestamptz") ELSE PrimT("timestamp")

(***************************************************************************)
(* C24. Visitor stack discipline: after every BeforeField and AfterField   *)
(* of an IcebergToAvro traversal the depth equals the length of the        *)
(* field-ID stack and is not negative; every AfterField(f) pops the ID of  *)
(* f, which the matching BeforeField(f) pushed; no Peek or Pop runs on an  *)
(* empty stack; and when the conversion returns, as many fields have been  *)
(* left as entered, the depth is 0 and the stack is empty.                 *)
(***************************************************************************)
Entered == SelectSeq(visitor.log, LAMBDA e : e.op = "BeforeField")
Left == SelectSeq(visitor.log, LAMBDA e : e.op = "AfterField")
C24_StackDiscipline ==
    (Len(trail) >= 1 /\ Last(trail) = I2A) =>
       /\ \A i \in DOMAIN visitor.log :
             LET e == visitor.log[i] IN
             /\ e.depth = e.len
             /\ e.depth >= 0
             /\ e.op = "AfterField" => e.popped = [st |-> "ok", v |-> e.id]
       /\ wireOut.st # "ok" => wireOut.msg # "failed to get field ID for struct"
       /\ wireOut.st = "ok" =>
             /\ visitor.depth = 0
             /\ visitor.fieldIDs = <<>>
             /\ Len(Entered) = Len(Left)
C24_Witness ==
    /\ Len(trail) >= 1 /\ Last(trail) = I2A /\ wireOut.st = "ok"
    /\ visitor.depth = 0 /\ visitor.fieldIDs = <<>>
    /\ \E i \in DOMAIN visitor.log : visitor.log[i].depth >= 2
    /\ Len(Left) >= 3

(***************************************************************************)
(* C25. Element and value optionality: in the output of IcebergToAvro, the *)
(* items type of the array built for a catalog list is a nullable union    *)
(* when ElementRequired is false and unwrapped when it is true, and the    *)
(* values type of the wire map built for a string-keyed catalog map is a   *)
(* nullable union when ValueRequired is false and unwrapped when it is     *)
(* true.                                                                   *)
(***************************************************************************)
ListNodes == SelectSeq(OutNodes, LAMBDA n : n.ty.k = "list")
StringMapNodes == SelectSeq(MapNodes, LAMBDA n : n.ty.KeyType = PrimT("string"))
C25_OptionalityKept ==
    ToAvroDone =>
       /\ \A i \in DOMAIN ListNodes :
             LET n == ListNodes[i] IN
             n.w.t = "array" /\ (IsNullableUnion(n.w.items) <=> ~n.ty.ElementRequired)
       /\ \A i \in DOMAIN StringMapNodes :
             LET n == StringMapNodes[i] IN
             n.w.t = "map" /\ (IsNullableUnion(n.w.values) <=> ~n.ty.ValueRequired)
====
